---- MODULE Spec2Model ----
(***************************************************************************)
(* Model of cmd/gomoteserver/gomoteserver.go: the startup sequence of      *)
(* main, the optional SSH server task, and the request multiplexer on the  *)
(* primary listener.                                                       *)
(***************************************************************************)
EXTENDS Integers, Sequences, FiniteSets, TLC

VARIABLES
    pc,            \* position of the main goroutine
    exitCode,      \* -1 while the process runs, else the status of os.Exit
    buildEnvName,  \* value of the -env flag
    mode,          \* value of the -mode flag
    privateKey,    \* value behind the private key secret flag
    publicKey,     \* value behind the public key secret flag
    onGCE,         \* whether the process runs on the metadata substrate
    sp,            \* the session pool of remote.NewSessionPool
    keyGen,        \* number of key pairs remote.SSHKeyPair has produced
    sshCA,         \* CA signing key handed to gomote.New and NewSSHServer
    gomoteBucket,  \* bucket name handed to gomote.New
    serviceID,     \* IAP service id of the coordinator backend
    opts,          \* []grpc.ServerOption built by main
    grpcServer,    \* the grpc.Server, with the options it was built with
    storageClient, \* result of mustStorageClient
    configClient,  \* result of mustLUCIConfigClient
    gomoteServer,  \* arguments gomote.New was called with
    mux,           \* patterns registered on the http.ServeMux
    sshServ,       \* result of configureSSHServer: the server
    sshErr,        \* result of configureSSHServer: the error
    shell,         \* position of the goroutine running the SSH server
    deferred,      \* deferred calls registered by main
    closeCalls,    \* number of calls of sshServ.Close
    queries,       \* metadata substrate queries issued so far
    log,           \* lines written through package log
    trace,         \* startup steps main has completed, in order
    failures,      \* collaborator calls that have returned an error
    lastReq,       \* last request the primary listener received
    lastHandler,   \* handler that request was dispatched to
    lastResp       \* response written for it by this program's own code

flags == <<buildEnvName, mode, privateKey, publicKey, onGCE>>

http == <<lastReq, lastHandler, lastResp>>

built == <<sp, keyGen, sshCA, gomoteBucket, serviceID, opts, grpcServer, storageClient,
           configClient, gomoteServer, mux, sshServ, sshErr>>

vars == <<pc, exitCode, flags, built, shell, deferred, closeCalls, queries,
          log, trace, failures, http>>

-----------------------------------------------------------------------------
(* Values *)

NoKey == [origin |-> "none", serial |-> 0]

SuppliedKey == [origin |-> "supplied", serial |-> 0]

GeneratedKey(n) == [origin |-> "generated", serial |-> n]

NoServer ==
    [state |-> "nil", privateKey |-> NoKey, publicKey |-> NoKey, caKey |-> NoKey,
     sessionPool |-> "nil"]

NoRequest == [proto |-> 0, contentType |-> "", path |-> "", method |-> "", te |-> ""]

NoResponse == [status |-> 0, contentType |-> "", body |-> ""]

Modes == {"", "dev", "prod"}

EnvNames == {"", "staging"}

SecretValues == {"", "secret"}

\* GomoteTransferBucket of the environments buildenv.ByProjectID can select.
Buckets == {"", "gomote-transfer"}

\* Results of env.IAPServiceID; "" when the backend service is not found.
ServiceIDs == {"", "iap-service"}

\* net/http serves HTTP/1.x and HTTP/2.
ProtoMajors == {1, 2}

ContentTypes == {"", "application/grp", "application/grpc",
                 "application/grpc+proto"}

Paths == {"/", "/reverse", "/status"}

Methods == {"GET", "POST"}

TeValues == {"", "trailers"}

Requests ==
    [proto : ProtoMajors, contentType : ContentTypes, path : Paths,
     method : Methods, te : TeValues]

-----------------------------------------------------------------------------
(* Initial state: the flags and the environment are the inputs of a run *)

Init ==
    /\ pc = "start"
    /\ exitCode = -1
    /\ buildEnvName \in EnvNames
    /\ mode \in Modes
    /\ privateKey \in SecretValues
    /\ publicKey \in SecretValues
    /\ onGCE \in BOOLEAN
    /\ sp = "nil"
    /\ keyGen = 0
    /\ sshCA = NoKey
    /\ gomoteBucket = ""
    /\ serviceID = ""
    /\ opts = <<>>
    /\ grpcServer = [built |-> FALSE, opts |-> <<>>]
    /\ storageClient = "nil"
    /\ configClient = "nil"
    /\ gomoteServer = [built |-> FALSE, sessionPool |-> "nil", sshCA |-> NoKey,
                       bucket |-> ""]
    /\ mux = {}
    /\ sshServ = NoServer
    /\ sshErr = ""
    /\ shell = "none"
    /\ deferred = <<>>
    /\ closeCalls = 0
    /\ queries = <<>>
    /\ log = <<>>
    /\ trace = <<>>
    /\ failures = {}
    /\ lastReq = NoRequest
    /\ lastHandler = "none"
    /\ lastResp = NoResponse

-----------------------------------------------------------------------------
(* log.Fatal*: the line is logged and os.Exit(1) ends the process at once; *)
(* deferred calls are not run.                                             *)

Fatal(msg) ==
    /\ pc' = "exited"
    /\ exitCode' = 1
    /\ log' = Append(log, msg)
    /\ UNCHANGED <<deferred, closeCalls, trace>>

\* A collaborator call returns an error.
Fails(call) == failures' = failures \cup {call}

\* A step of main that does not end the process.
Step(next, name) ==
    /\ pc' = next
    /\ trace' = Append(trace, name)
    /\ UNCHANGED <<exitCode, deferred, closeCalls, failures>>

-----------------------------------------------------------------------------
(* main, lines 41-72: startup up to the registration of the gomote service *)

Start ==
    /\ pc = "start"
    /\ log' = Append(log, "starting gomote server")
    /\ Step("init_secret", "flag.Parse")
    /\ UNCHANGED <<flags, built, shell, queries, http>>

InitFlagSupport ==
    /\ pc = "init_secret"
    /\ \E ok \in BOOLEAN :
         IF ok
         THEN Step("secret_flags", "secret.InitFlagSupport") /\ UNCHANGED log
         ELSE Fatal("secret.InitFlagSupport failed")
              /\ Fails("secret.InitFlagSupport")
    /\ UNCHANGED <<flags, built, shell, queries, http>>

SecretFlags ==
    /\ pc = "secret_flags"
    /\ Step("session_pool", "secret.Flag")
    /\ UNCHANGED <<flags, built, shell, queries, log, http>>

NewSessionPool ==
    /\ pc = "session_pool"
    /\ sp' = "SessionPool"
    /\ Step("ssh_ca", "remote.NewSessionPool")
    /\ UNCHANGED <<flags, keyGen, sshCA, gomoteBucket, serviceID, opts,
                   grpcServer, storageClient, configClient, gomoteServer, mux,
                   sshServ, sshErr, shell, queries, log, http>>

mustRetrieveSSHCertificateAuthority ==
    /\ pc = "ssh_ca"
    /\ \E ok \in BOOLEAN :
         IF ok
         THEN /\ keyGen' = keyGen + 1
              /\ sshCA' = GeneratedKey(keyGen + 1)
              /\ Step("scheduler", "mustRetrieveSSHCertificateAuthority")
              /\ UNCHANGED log
         ELSE /\ Fatal("unable to create SSH CA cert")
              /\ Fails("remote.SSHKeyPair(CA)")
              /\ UNCHANGED <<keyGen, sshCA>>
    /\ UNCHANGED <<flags, sp, gomoteBucket, serviceID, opts, grpcServer,
                   storageClient, configClient, gomoteServer, mux, sshServ,
                   sshErr, shell, queries, http>>

NewScheduler ==
    /\ pc = "scheduler"
    /\ Step("resolve_env", "schedule.NewScheduler")
    /\ UNCHANGED <<flags, built, shell, queries, log, http>>

\* Faulty variant: metadata.OnGCE() is the first operand on line 56.
EvaluatesOnGCE_Always(env, m) == TRUE

\* Line 56: && evaluates left to right and stops at the first false operand,
\* so metadata.OnGCE() is called only when -env is empty and -mode is not dev.
EvaluatesOnGCE(env, m) == env = "" /\ m # "dev"

\* Faulty variant: the -env flag is not looked at.
ManagedCondition_IgnoresEnv(env, m, gce) == m # "dev" /\ gce

\* Line 56: the condition under which main takes the IAP branch.
ManagedCondition(env, m, gce) == env = "" /\ m # "dev" /\ gce

ResolveEnv ==
    /\ pc = "resolve_env"
    /\ queries' = IF EvaluatesOnGCE(buildEnvName, mode)
                  THEN Append(queries, "OnGCE")
                  ELSE queries
    /\ Step(IF ManagedCondition(buildEnvName, mode, onGCE)
            THEN "project_id"
            ELSE "new_server", "resolve")
    /\ UNCHANGED <<flags, built, shell, log, http>>

ProjectID ==
    /\ pc = "project_id"
    /\ queries' = Append(queries, "ProjectID")
    /\ \E ok \in BOOLEAN :
         IF ok
         THEN Step("by_project_id", "metadata.ProjectID") /\ UNCHANGED log
         ELSE Fatal("metadata.ProjectID() failed")
              /\ Fails("metadata.ProjectID")
    /\ UNCHANGED <<flags, built, shell, http>>

ByProjectID ==
    /\ pc = "by_project_id"
    /\ \E b \in Buckets : gomoteBucket' = b
    /\ Step("iap_service_id", "buildenv.ByProjectID")
    /\ UNCHANGED <<flags, sp, keyGen, sshCA, serviceID, opts, grpcServer,
                   storageClient, configClient, gomoteServer, mux, sshServ,
                   sshErr, shell, queries, log, http>>

IAPServiceID ==
    /\ pc = "iap_service_id"
    /\ queries' = Append(queries, "IAPServiceID")
    /\ \E s \in ServiceIDs :
         /\ serviceID' = s
         /\ IF s = ""
            THEN Fatal("unable to retrieve Service ID for backend service")
                 /\ Fails("env.IAPServiceID")
            ELSE Step("interceptors", "env.IAPServiceID") /\ UNCHANGED log
    /\ UNCHANGED <<flags, sp, keyGen, sshCA, gomoteBucket, opts, grpcServer,
                   storageClient, configClient, gomoteServer, mux, sshServ,
                   sshErr, shell, http>>

\* Faulty variant: line 68 is missing.
AppendInterceptors_UnaryOnly ==
    /\ pc = "interceptors"
    /\ opts' = Append(opts, "UnaryInterceptor(RequireIAPAuth)")
    /\ Step("new_server", "interceptors")
    /\ UNCHANGED <<flags, sp, keyGen, sshCA, gomoteBucket, serviceID, grpcServer,
                   storageClient, configClient, gomoteServer, mux, sshServ,
                   sshErr, shell, queries, log, http>>

AppendInterceptors ==
    /\ pc = "interceptors"
    /\ opts' = Append(Append(opts, "UnaryInterceptor(RequireIAPAuth)"),
                      "StreamInterceptor(RequireIAPAuth)")
    /\ Step("new_server", "interceptors")
    /\ UNCHANGED <<flags, sp, keyGen, sshCA, gomoteBucket, serviceID, grpcServer,
                   storageClient, configClient, gomoteServer, mux, sshServ,
                   sshErr, shell, queries, log, http>>

NewServer ==
    /\ pc = "new_server"
    /\ grpcServer' = [built |-> TRUE, opts |-> opts]
    /\ Step("storage_client", "grpc.NewServer")
    /\ UNCHANGED <<flags, sp, keyGen, sshCA, gomoteBucket, serviceID, opts,
                   storageClient, configClient, gomoteServer, mux, sshServ,
                   sshErr, shell, queries, log, http>>

\* Lines 128-137. metadata.OnGCE() is called whatever the flags are.
mustStorageClient ==
    /\ pc = "storage_client"
    /\ queries' = Append(queries, "OnGCE")
    /\ IF onGCE
       THEN /\ storageClient' = "pool.GCEConfiguration"
            /\ Step("config_client", "mustStorageClient")
            /\ UNCHANGED log
       ELSE \E ok \in BOOLEAN :
              IF ok
              THEN /\ storageClient' = "storage.WithoutAuthentication"
                   /\ Step("config_client", "mustStorageClient")
                   /\ UNCHANGED log
              ELSE /\ Fatal("unable to create storage client")
                   /\ Fails("storage.NewClient")
                   /\ UNCHANGED storageClient
    /\ UNCHANGED <<flags, sp, keyGen, sshCA, gomoteBucket, serviceID, opts,
                   grpcServer, configClient, gomoteServer, mux, sshServ,
                   sshErr, shell, http>>

\* Line 132: storage.NewClient is called with context.Background(), which
\* has no deadline; when the call does not return, main waits in it for ever.
StorageClientBlocks ==
    /\ pc = "storage_client"
    /\ ~onGCE
    /\ queries' = Append(queries, "OnGCE")
    /\ pc' = "storage_blocked"
    /\ UNCHANGED <<exitCode, flags, built, shell, deferred, closeCalls, log,
                   trace, failures, http>>

\* Line 113: swarmclient.NewConfigClient does not answer; main waits in it
\* under the context of line 111.
ConfigClientBlocks ==
    /\ pc = "config_client"
    /\ pc' = "config_blocked"
    /\ UNCHANGED <<exitCode, flags, built, shell, deferred, closeCalls,
                   queries, log, trace, failures, http>>

\* Faulty variant: context.Background() on line 111, the wait has no end.
ConfigDeadline_NoDeadline ==
    /\ pc = "config_blocked"
    /\ UNCHANGED vars

\* Lines 111-116: the 10 second deadline expires, NewConfigClient returns
\* the context's error and log.Fatalf ends the process.
ConfigDeadline ==
    /\ pc = "config_blocked"
    /\ Fatal("unable to create LUCI config client")
    /\ Fails("swarmclient.NewConfigClient")
    /\ UNCHANGED <<flags, built, shell, queries, http>>

\* Faulty variant: the error of NewConfigClient is dropped.
mustLUCIConfigClient_IgnoresError ==
    /\ pc = "config_client"
    /\ \E ok \in BOOLEAN :
         /\ configClient' = IF ok THEN "swarmclient.ConfigClient" ELSE "nil"
         /\ failures' = IF ok THEN failures
                        ELSE failures \cup {"swarmclient.NewConfigClient"}
    /\ pc' = "gomote_new"
    /\ trace' = Append(trace, "mustLUCIConfigClient")
    /\ UNCHANGED <<exitCode, deferred, closeCalls, log>>
    /\ UNCHANGED <<flags, sp, keyGen, sshCA, gomoteBucket, serviceID, opts,
                   grpcServer, storageClient, gomoteServer, mux, sshServ,
                   sshErr, shell, queries, http>>

\* Lines 110-118. The error covers the expiry of the 10 second deadline.
mustLUCIConfigClient ==
    /\ pc = "config_client"
    /\ \E ok \in BOOLEAN :
         IF ok
         THEN /\ configClient' = "swarmclient.ConfigClient"
              /\ Step("gomote_new", "mustLUCIConfigClient")
              /\ UNCHANGED log
         ELSE /\ Fatal("unable to create LUCI config client")
              /\ Fails("swarmclient.NewConfigClient")
              /\ UNCHANGED configClient
    /\ UNCHANGED <<flags, sp, keyGen, sshCA, gomoteBucket, serviceID, opts,
                   grpcServer, storageClient, gomoteServer, mux, sshServ,
                   sshErr, shell, queries, http>>

\* Faulty variant: an empty bucket name is replaced by a default one.
GomoteNew_DefaultBucket ==
    /\ pc = "gomote_new"
    /\ gomoteServer' = [built |-> TRUE, sessionPool |-> sp, sshCA |-> sshCA,
                        bucket |-> IF gomoteBucket = ""
                                   THEN "gomote-transfer"
                                   ELSE gomoteBucket]
    /\ Step("mux", "gomote.New")
    /\ UNCHANGED <<flags, sp, keyGen, sshCA, gomoteBucket, serviceID, opts,
                   grpcServer, storageClient, configClient, mux, sshServ,
                   sshErr, shell, queries, log, http>>

GomoteNew ==
    /\ pc = "gomote_new"
    /\ gomoteServer' = [built |-> TRUE, sessionPool |-> sp, sshCA |-> sshCA,
                        bucket |-> gomoteBucket]
    /\ Step("mux", "gomote.New")
    /\ UNCHANGED <<flags, sp, keyGen, sshCA, gomoteBucket, serviceID, opts,
                   grpcServer, storageClient, configClient, mux, sshServ,
                   sshErr, shell, queries, log, http>>

-----------------------------------------------------------------------------
(* The request multiplexer, lines 74-76 and 145-164 *)

HasPrefix(s, prefix) ==
    /\ Len(s) >= Len(prefix)
    /\ SubSeq(s, 1, Len(prefix)) = prefix

\* Faulty variant: the transport version is not looked at.
grpcHandlerFunc_NoProtoCheck(r) ==
    IF HasPrefix(r.contentType, "application/grpc")
    THEN "grpcServer.ServeHTTP"
    ELSE "handleStatus"

\* Faulty variant: a third request field, the TE header, takes part.
grpcHandlerFunc_TeCheck(r) ==
    IF r.proto = 2 /\ HasPrefix(r.contentType, "application/grpc")
       /\ r.te = "trailers"
    THEN "grpcServer.ServeHTTP"
    ELSE "handleStatus"

\* The handler returned by grpcHandlerFunc(grpcServer, handleStatus).
grpcHandlerFunc(r) ==
    IF r.proto = 2 /\ HasPrefix(r.contentType, "application/grpc")
    THEN "grpcServer.ServeHTTP"
    ELSE "handleStatus"

\* Faulty variant: only GET is answered.
handleStatus_GetOnly(r) ==
    IF r.method # "GET"
    THEN [status |-> 405, contentType |-> "text/plain; charset=utf-8",
          body |-> "Method Not Allowed"]
    ELSE IF r.path # "/"
    THEN [status |-> 404, contentType |-> "text/plain; charset=utf-8",
          body |-> "404 page not found"]
    ELSE [status |-> 200, contentType |-> "text/plain",
          body |-> "gomote status page placeholder"]

handleStatus(r) ==
    IF r.path # "/"
    THEN [status |-> 404, contentType |-> "text/plain; charset=utf-8",
          body |-> "404 page not found"]
    ELSE [status |-> 200, contentType |-> "text/plain",
          body |-> "gomote status page placeholder"]

\* http.ServeMux: a pattern without a trailing slash matches that path only,
\* the pattern "/" matches every path no other pattern matches.
ServeMuxHandler(m, r) ==
    IF \E e \in m : e.pattern = r.path
    THEN (CHOOSE e \in m : e.pattern = r.path).handler
    ELSE (CHOOSE e \in m : e.pattern = "/").handler

\* The handler of this program that ends up serving request r.
Dispatch(m, r) ==
    IF ServeMuxHandler(m, r) = "grpcHandlerFunc"
    THEN grpcHandlerFunc(r)
    ELSE ServeMuxHandler(m, r)

\* Faulty variant: main goes from the mux straight to line 107.
NewServeMux_SkipSSH ==
    /\ pc = "mux"
    /\ mux' = { [pattern |-> "/reverse", handler |-> "pool.HandleReverse"],
                [pattern |-> "/", handler |-> "grpcHandlerFunc"] }
    /\ Step("serve", "http.NewServeMux")
    /\ UNCHANGED <<flags, sp, keyGen, sshCA, gomoteBucket, serviceID, opts,
                   grpcServer, storageClient, configClient, gomoteServer,
                   sshServ, sshErr, shell, queries, log, http>>

NewServeMux ==
    /\ pc = "mux"
    /\ mux' = { [pattern |-> "/reverse", handler |-> "pool.HandleReverse"],
                [pattern |-> "/", handler |-> "grpcHandlerFunc"] }
    /\ Step("configure_ssh", "http.NewServeMux")
    /\ UNCHANGED <<flags, sp, keyGen, sshCA, gomoteBucket, serviceID, opts,
                   grpcServer, storageClient, configClient, gomoteServer,
                   sshServ, sshErr, shell, queries, log, http>>

-----------------------------------------------------------------------------
(* The SSH server, lines 78-106 *)

\* Faulty variant: the SSH server is given a session pool of its own.
NewSSHServer_OwnPool(priv, pub, ca, gen) ==
    { [serv |-> [state |-> "configured", privateKey |-> priv,
                 publicKey |-> pub, caKey |-> ca,
                 sessionPool |-> "SessionPool (second)"],
       err |-> "", keyGen |-> gen, failed |-> {}],
      [serv |-> NoServer, err |-> "remote.NewSSHServer failed",
       keyGen |-> gen, failed |-> {"remote.NewSSHServer"}] }

\* remote.NewSSHServer with the given host key pair and the session pool sp
\* the closure captures: a server, or an error.
NewSSHServer(priv, pub, ca, gen) ==
    { [serv |-> [state |-> "configured", privateKey |-> priv,
                 publicKey |-> pub, caKey |-> ca, sessionPool |-> sp],
       err |-> "", keyGen |-> gen, failed |-> {}],
      [serv |-> NoServer, err |-> "remote.NewSSHServer failed",
       keyGen |-> gen, failed |-> {"remote.NewSSHServer"}] }

\* Faulty variant: || in place of && on line 79, so one supplied key is enough.
configureSSHServer_EitherKey(priv, pub, m, ca, gen) ==
    IF priv # "" \/ pub # ""
    THEN NewSSHServer(SuppliedKey, SuppliedKey, ca, gen)
    ELSE IF m # "dev"
    THEN { [serv |-> NoServer, err |-> "SSH key pair is not configured",
            keyGen |-> gen, failed |-> {}] }
    ELSE { [serv |-> NoServer,
            err |-> "unable to generate development SSH key pair",
            keyGen |-> gen, failed |-> {"remote.SSHKeyPair"}] }
         \cup NewSSHServer(GeneratedKey(gen + 1), GeneratedKey(gen + 1),
                           ca, gen + 1)

\* Faulty variant: the mode is tested before the keys, so dev mode always
\* generates a pair.
configureSSHServer_DevFirst(priv, pub, m, ca, gen) ==
    IF m = "dev"
    THEN { [serv |-> NoServer,
            err |-> "unable to generate development SSH key pair",
            keyGen |-> gen, failed |-> {"remote.SSHKeyPair"}] }
         \cup NewSSHServer(GeneratedKey(gen + 1), GeneratedKey(gen + 1),
                           ca, gen + 1)
    ELSE IF priv # "" /\ pub # ""
    THEN NewSSHServer(SuppliedKey, SuppliedKey, ca, gen)
    ELSE { [serv |-> NoServer, err |-> "SSH key pair is not configured",
            keyGen |-> gen, failed |-> {}] }

\* Faulty variant: lines 82-84 are missing, a pair is generated in any mode.
configureSSHServer_NoModeCheck(priv, pub, m, ca, gen) ==
    IF priv # "" /\ pub # ""
    THEN NewSSHServer(SuppliedKey, SuppliedKey, ca, gen)
    ELSE { [serv |-> NoServer,
            err |-> "unable to generate development SSH key pair",
            keyGen |-> gen, failed |-> {"remote.SSHKeyPair"}] }
         \cup NewSSHServer(GeneratedKey(gen + 1), GeneratedKey(gen + 1),
                           ca, gen + 1)

\* Faulty variant: the test of line 82 is the one of line 56, a pair is
\* generated wherever the IAP branch is not taken.
configureSSHServer_ByContext(priv, pub, m, ca, gen) ==
    IF priv # "" /\ pub # ""
    THEN NewSSHServer(SuppliedKey, SuppliedKey, ca, gen)
    ELSE IF ManagedCondition(buildEnvName, m, onGCE)
    THEN { [serv |-> NoServer, err |-> "SSH key pair is not configured",
            keyGen |-> gen, failed |-> {}] }
    ELSE { [serv |-> NoServer,
            err |-> "unable to generate development SSH key pair",
            keyGen |-> gen, failed |-> {"remote.SSHKeyPair"}] }
         \cup NewSSHServer(GeneratedKey(gen + 1), GeneratedKey(gen + 1),
                           ca, gen + 1)

\* The results the closure configureSSHServer can return, with the number of
\* key pairs generated when it returns.
configureSSHServer(priv, pub, m, ca, gen) ==
    IF priv # "" /\ pub # ""
    THEN NewSSHServer(SuppliedKey, SuppliedKey, ca, gen)
    ELSE IF m # "dev"
    THEN { [serv |-> NoServer, err |-> "SSH key pair is not configured",
            keyGen |-> gen, failed |-> {}] }
    ELSE { [serv |-> NoServer,
            err |-> "unable to generate development SSH key pair",
            keyGen |-> gen, failed |-> {"remote.SSHKeyPair"}] }
         \cup NewSSHServer(GeneratedKey(gen + 1), GeneratedKey(gen + 1),
                           ca, gen + 1)

ConfigureSSH ==
    /\ pc = "configure_ssh"
    /\ \E res \in configureSSHServer(privateKey, publicKey, mode, sshCA, keyGen) :
         /\ sshServ' = res.serv
         /\ sshErr' = res.err
         /\ keyGen' = res.keyGen
         /\ failures' = failures \cup res.failed
    /\ pc' = "ssh_result"
    /\ trace' = Append(trace, "configureSSHServer")
    /\ UNCHANGED <<exitCode, flags, sp, sshCA, gomoteBucket, serviceID, opts,
                   grpcServer, storageClient, configClient, gomoteServer, mux,
                   shell, deferred, closeCalls, queries, log, http>>

\* Faulty variant: log.Fatalf in place of log.Printf on line 93.
SSHResult_Fatal ==
    /\ pc = "ssh_result"
    /\ IF sshErr # ""
       THEN /\ Fatal("unable to configure SSH server")
            /\ UNCHANGED shell
       ELSE /\ shell' = "spawned"
            /\ deferred' = Append(deferred, "sshServ.Close")
            /\ pc' = "serve"
            /\ trace' = Append(trace, "ssh result handled")
            /\ UNCHANGED <<log, exitCode, closeCalls>>
    /\ UNCHANGED <<flags, built, queries, failures, http>>

\* Faulty variant: line 93 is missing, the error is dropped without a line.
SSHResult_Silent ==
    /\ pc = "ssh_result"
    /\ IF sshErr # ""
       THEN UNCHANGED <<shell, deferred>>
       ELSE /\ shell' = "spawned"
            /\ deferred' = Append(deferred, "sshServ.Close")
    /\ pc' = "serve"
    /\ trace' = Append(trace, "ssh result handled")
    /\ UNCHANGED <<exitCode, flags, built, closeCalls, queries, log,
                   failures, http>>

\* Lines 92-106: log the error, or start the goroutine and register the
\* deferred Close.
SSHResult ==
    /\ pc = "ssh_result"
    /\ IF sshErr # ""
       THEN /\ log' = Append(log, "unable to configure SSH server")
            /\ UNCHANGED <<shell, deferred>>
       ELSE /\ shell' = "spawned"
            /\ deferred' = Append(deferred, "sshServ.Close")
            /\ UNCHANGED log
    /\ pc' = "serve"
    /\ trace' = Append(trace, "ssh result handled")
    /\ UNCHANGED <<exitCode, flags, built, closeCalls, queries, failures, http>>

\* The goroutine of lines 95-99. It runs only while the process does.
ShellLogRunning ==
    /\ exitCode = -1
    /\ shell = "spawned"
    /\ shell' = "announced"
    /\ log' = Append(log, "running SSH server")
    /\ UNCHANGED <<pc, exitCode, flags, built, deferred, closeCalls, queries,
                   trace, failures, http>>

ShellListenAndServe ==
    /\ exitCode = -1
    /\ shell = "announced"
    /\ shell' = "listening"
    /\ UNCHANGED <<pc, exitCode, flags, built, deferred, closeCalls, queries,
                   log, trace, failures, http>>

\* sshServ.ListenAndServe returns, which it does with an error only.
ShellListenReturns ==
    /\ exitCode = -1
    /\ shell = "listening"
    /\ shell' = "returned"
    /\ failures' = failures \cup {"sshServ.ListenAndServe"}
    /\ UNCHANGED <<pc, exitCode, flags, built, deferred, closeCalls, queries,
                   log, trace, http>>

\* Faulty variant: log.Fatalf in place of log.Printf on line 98.
ShellLogEnded_Fatal ==
    /\ exitCode = -1
    /\ shell = "returned"
    /\ shell' = "ended"
    /\ Fatal("SSH server ended with error")
    /\ UNCHANGED <<flags, built, queries, failures, http>>

ShellLogEnded ==
    /\ exitCode = -1
    /\ shell = "returned"
    /\ shell' = "ended"
    /\ log' = Append(log, "SSH server ended with error")
    /\ UNCHANGED <<pc, exitCode, flags, built, deferred, closeCalls, queries,
                   trace, failures, http>>

-----------------------------------------------------------------------------
(* The primary listener, line 107 *)

\* main calls https.ListenAndServe and blocks in it.
Serve ==
    /\ pc = "serve"
    /\ Step("serving", "https.ListenAndServe")
    /\ UNCHANGED <<flags, built, shell, queries, log, http>>

\* The listener hands a request to the mux.
HandleRequest ==
    /\ pc = "serving"
    /\ \E r \in Requests :
         /\ lastReq' = r
         /\ lastHandler' = Dispatch(mux, r)
         /\ lastResp' = IF Dispatch(mux, r) = "handleStatus"
                        THEN handleStatus(r)
                        ELSE NoResponse
    /\ UNCHANGED <<pc, exitCode, flags, built, shell, deferred, closeCalls,
                   queries, log, trace, failures>>

\* https.ListenAndServe returns: log.Fatalln prints its error and exits.
ServeReturns ==
    /\ pc = "serving"
    /\ Fatal("https.ListenAndServe returned")
    /\ Fails("https.ListenAndServe")
    /\ UNCHANGED <<flags, built, shell, queries, http>>

-----------------------------------------------------------------------------

Next ==
    \/ Start
    \/ InitFlagSupport
    \/ SecretFlags
    \/ NewSessionPool
    \/ mustRetrieveSSHCertificateAuthority
    \/ NewScheduler
    \/ ResolveEnv
    \/ ProjectID
    \/ ByProjectID
    \/ IAPServiceID
    \/ AppendInterceptors
    \/ NewServer
    \/ mustStorageClient
    \/ mustLUCIConfigClient
    \/ GomoteNew
    \/ NewServeMux
    \/ ConfigureSSH
    \/ SSHResult
    \/ ShellLogRunning
    \/ ShellListenAndServe
    \/ ShellListenReturns
    \/ ShellLogEnded
    \/ Serve
    \/ HandleRequest
    \/ ServeReturns
    \/ StorageClientBlocks
    \/ ConfigClientBlocks
    \/ ConfigDeadline

Spec == Init /\ [][Next]_vars

\* The steps of the main goroutine up to its call of https.ListenAndServe.
MainStartup ==
    \/ Start
    \/ InitFlagSupport
    \/ SecretFlags
    \/ NewSessionPool
    \/ mustRetrieveSSHCertificateAuthority
    \/ NewScheduler
    \/ ResolveEnv
    \/ ProjectID
    \/ ByProjectID
    \/ IAPServiceID
    \/ AppendInterceptors
    \/ NewServer
    \/ mustStorageClient
    \/ StorageClientBlocks
    \/ mustLUCIConfigClient
    \/ ConfigClientBlocks
    \/ ConfigDeadline
    \/ GomoteNew
    \/ NewServeMux
    \/ ConfigureSSH
    \/ SSHResult
    \/ Serve

\* The Go scheduler runs a goroutine that can run: main takes its next
\* startup step, and the SSH goroutine its next step, while the process
\* lives.
FairSpec ==
    /\ Spec
    /\ WF_vars(MainStartup)
    /\ WF_vars(ShellLogRunning \/ ShellListenAndServe \/ ShellLogEnded)

-----------------------------------------------------------------------------
(* Vocabulary of the properties *)

\* Main has completed the named startup step.
Done(name) == \E i \in 1..Len(trace) : trace[i] = name

Logged(line) == \E i \in 1..Len(log) : log[i] = line

\* The deployment contexts: Managed is the IAP branch of line 56, LocalDev
\* is what line 82 tests.
Managed == buildEnvName = "" /\ mode # "dev" /\ onGCE

LocalDev == mode = "dev"

\* The content types of ContentTypes that begin with "application/grpc".
RPCContentTypes == {"application/grpc", "application/grpc+proto"}

IsRPC(r) == r.proto = 2 /\ r.contentType \in RPCContentTypes

Expected(r) == IF IsRPC(r) THEN "grpcServer.ServeHTTP" ELSE "handleStatus"

Iap == <<"UnaryInterceptor(RequireIAPAuth)", "StreamInterceptor(RequireIAPAuth)">>

-----------------------------------------------------------------------------
(* Properties of the multiplexer *)

\* C1, as stated: every request on the primary listener goes to the gRPC
\* server when it is HTTP/2 with a Content-Type beginning with
\* "application/grpc", and to the status handler otherwise.
C1_AllRequestsRouted ==
    lastReq # NoRequest => lastHandler = Expected(lastReq)

\* C1: every request on the primary listener whose path is not "/reverse"
\* goes to the gRPC server when it is HTTP/2 with a Content-Type beginning
\* with "application/grpc", and to the status handler otherwise; a request
\* for "/reverse" goes to pool.HandleReverse.
C1_RoutedExceptReverse ==
    lastReq # NoRequest =>
        IF lastReq.path = "/reverse"
        THEN lastHandler = "pool.HandleReverse"
        ELSE lastHandler = Expected(lastReq)

C1_Witness ==
    /\ lastReq # NoRequest
    /\ lastReq.proto = 2
    /\ lastReq.contentType = "application/grpc+proto"
    /\ lastReq.path = "/status"
    /\ lastHandler = "grpcServer.ServeHTTP"

SameRoutingFields(r1, r2) ==
    r1.proto = r2.proto /\ r1.contentType = r2.contentType

\* C2, as stated: two requests that agree on transport version and
\* Content-Type get the same handler, whatever their paths, their other
\* headers and the requests served before them.
C2_RouteDependsOnTwoFields ==
    [][(lastReq # NoRequest /\ lastReq' # NoRequest
        /\ SameRoutingFields(lastReq, lastReq'))
       => lastHandler' = lastHandler]_vars

\* C2: two requests, neither of them for the path "/reverse", that agree on
\* transport version and Content-Type get the same handler, whatever their
\* paths, their other headers and the requests served before them.
C2_RouteDependsOnTwoFieldsExceptReverse ==
    [][(lastReq # NoRequest /\ lastReq' # NoRequest
        /\ lastReq.path # "/reverse" /\ lastReq'.path # "/reverse"
        /\ SameRoutingFields(lastReq, lastReq'))
       => lastHandler' = lastHandler]_vars

C2_Witness ==
    /\ lastReq # NoRequest
    /\ lastReq.proto = 2
    /\ lastReq.contentType = "application/grpc"
    /\ lastReq.path = "/"
    /\ lastReq.te = ""
    /\ lastReq.method = "GET"
    /\ lastHandler = "grpcServer.ServeHTTP"

-----------------------------------------------------------------------------
(* Properties of the SSH server configuration *)

KeyMissing == privateKey = "" \/ publicKey = ""

BothKeysPresent == privateKey # "" /\ publicKey # ""

\* The goroutine of the SSH server has been started.
ShellStarted == shell # "none"

\* Main is past the branch on the result of configureSSHServer.
ResultHandled == Done("ssh result handled")

\* configureSSHServer returned a server built from a pair generated by this
\* call, which is no pair generated before it.
RunsWithGeneratedPair ==
    /\ sshErr = ""
    /\ sshServ.state = "configured"
    /\ sshServ.privateKey = GeneratedKey(keyGen)
    /\ sshServ.publicKey = GeneratedKey(keyGen)
    /\ sshServ.privateKey # sshCA
    /\ ResultHandled => ShellStarted

RunsWithSuppliedPair ==
    /\ sshErr = ""
    /\ sshServ.state = "configured"
    /\ sshServ.privateKey = SuppliedKey
    /\ sshServ.publicKey = SuppliedKey
    /\ ResultHandled => ShellStarted

\* configureSSHServer returned an error of the given set and no server, and
\* the goroutine is never started.
FailsWith(errors) ==
    /\ sshErr \in errors
    /\ sshServ = NoServer
    /\ ~ShellStarted

\* C3, as stated: with a key missing, LocalDev generates a fresh pair and
\* starts the SSH server with it; any other context returns the
\* configuration error and no server, and the listen loop is never started.
C3_MissingKeyDevAlwaysStarts ==
    (KeyMissing /\ Done("configureSSHServer")) =>
        IF LocalDev
        THEN RunsWithGeneratedPair
        ELSE FailsWith({"SSH key pair is not configured"})

\* C3: with a key missing, LocalDev (-mode=dev) generates a fresh pair and,
\* when the generation and the construction of the server succeed, starts
\* the SSH server with it, a supplied half being unused; when one of the two
\* fails it returns that error and no server. Any other context returns the
\* configuration error and no server, generates nothing, and the listen loop
\* is never started.
C3_MissingKey ==
    (KeyMissing /\ Done("configureSSHServer")) =>
        IF LocalDev
        THEN \/ RunsWithGeneratedPair
             \/ FailsWith({"unable to generate development SSH key pair",
                           "remote.NewSSHServer failed"})
        ELSE /\ FailsWith({"SSH key pair is not configured"})
             /\ keyGen = sshCA.serial

C3_Witness ==
    /\ privateKey # ""
    /\ publicKey = ""
    /\ LocalDev
    /\ RunsWithGeneratedPair
    /\ shell = "listening"

\* C4, as stated: with both keys present, every context gets a running
\* server built from the supplied pair, and no pair is generated.
C4_BothKeysAlwaysRun ==
    (BothKeysPresent /\ Done("configureSSHServer")) =>
        /\ RunsWithSuppliedPair
        /\ keyGen = sshCA.serial

\* C4: with both keys present, every context has the server constructed
\* from the supplied pair and no pair is generated; when the construction
\* succeeds the server runs, when it fails its error is returned with no
\* server.
C4_BothKeys ==
    (BothKeysPresent /\ Done("configureSSHServer")) =>
        /\ \/ RunsWithSuppliedPair
           \/ FailsWith({"remote.NewSSHServer failed"})
        /\ keyGen = sshCA.serial

C4_Witness ==
    /\ BothKeysPresent
    /\ LocalDev
    /\ RunsWithSuppliedPair
    /\ shell = "listening"

\* C5: once the SSH server is configured, the process does not end without
\* a call of sshServ.Close.
C5_CloseBeforeExit ==
    (exitCode # -1 /\ sshServ.state = "configured") => closeCalls > 0

\* C6: when configureSSHServer returns an error, the error is logged, the
\* SSH goroutine is not started, and the process does not end before it has
\* called https.ListenAndServe.
C6_ConfigFailureNotFatal ==
    (sshErr # "" /\ pc # "ssh_result") =>
        /\ Logged("unable to configure SSH server")
        /\ ~ShellStarted
        /\ pc \in {"serve", "serving", "exited"}
        /\ pc = "exited" => Done("https.ListenAndServe")

C6_Witness ==
    /\ sshErr = "unable to generate development SSH key pair"
    /\ pc = "serving"
    /\ lastHandler = "handleStatus"
    /\ ~ShellStarted

-----------------------------------------------------------------------------
(* Properties of the environment resolution and of the startup failures *)

\* C7: while the primary listener serves in the Managed context, the gRPC
\* server carries the unary and the streaming IAP interceptor; when the
\* project id or the IAP service id cannot be resolved, the process exits
\* with the gRPC server not built.
C7_ManagedIsAuthenticated ==
    /\ (pc = "serving" /\ Managed) =>
          /\ grpcServer.built
          /\ \E i \in 1..Len(grpcServer.opts) :
                grpcServer.opts[i] = "UnaryInterceptor(RequireIAPAuth)"
          /\ \E i \in 1..Len(grpcServer.opts) :
                grpcServer.opts[i] = "StreamInterceptor(RequireIAPAuth)"
    /\ (failures \cap {"metadata.ProjectID", "env.IAPServiceID"} # {}) =>
          /\ pc = "exited"
          /\ ~grpcServer.built

C7_Witness ==
    /\ pc = "serving"
    /\ Managed
    /\ mode = "prod"
    /\ lastHandler = "grpcServer.ServeHTTP"

\* C8: the options of the gRPC server are exactly the unary and the
\* streaming IAP interceptor in the Managed context, where the IAP service
\* id is not empty, and there are none at all in every other context.
C8_AuthPolicyBinary ==
    /\ ~Managed => (opts = <<>> /\ grpcServer.opts = <<>>)
    /\ (Managed /\ grpcServer.built) =>
          /\ serviceID # ""
          /\ opts = Iap
          /\ grpcServer.opts = Iap

C8_Witness ==
    /\ mode = "prod"
    /\ ~onGCE
    /\ buildEnvName = ""
    /\ pc = "serving"
    /\ grpcServer.built
    /\ grpcServer.opts = <<>>
    /\ lastHandler = "grpcServer.ServeHTTP"

\* C9, as stated: with -mode=dev no metadata query is issued at any point
\* of the startup sequence.
C9_DevNeverQueries ==
    LocalDev => queries = <<>>

\* C9: with -mode=dev the environment resolution issues no metadata query
\* and the IAP branch is not taken, so there is never a project id query
\* nor an IAP service id lookup; the one metadata query of the startup
\* sequence is the on-substrate check of mustStorageClient, made after the
\* gRPC server is built.
C9_DevQueriesOnlyForStorage ==
    LocalDev =>
        /\ ~Managed
        /\ opts = <<>>
        /\ gomoteBucket = ""
        /\ queries \in {<<>>, <<"OnGCE">>}
        /\ queries = <<"OnGCE">> => Done("grpc.NewServer")
        /\ Done("mustStorageClient") => queries = <<"OnGCE">>

C9_Witness ==
    /\ LocalDev
    /\ onGCE
    /\ buildEnvName = ""
    /\ pc = "serving"
    /\ queries = <<"OnGCE">>

\* The calls whose failure main answers with log.Fatal before it serves.
StartupFatal ==
    {"secret.InitFlagSupport", "remote.SSHKeyPair(CA)", "metadata.ProjectID",
     "env.IAPServiceID", "storage.NewClient", "swarmclient.NewConfigClient"}

\* C10: when one of the fatal startup calls fails, the process has exited
\* with no SSH goroutine started and without having called
\* https.ListenAndServe; and when https.ListenAndServe has returned, the
\* process has exited.
C10_FatalAtStartup ==
    /\ (failures \cap StartupFatal # {}) =>
          /\ pc = "exited"
          /\ exitCode = 1
          /\ ~ShellStarted
          /\ ~Done("https.ListenAndServe")
          /\ lastReq = NoRequest
    /\ ("https.ListenAndServe" \in failures) =>
          /\ pc = "exited"
          /\ exitCode = 1

C10_Witness ==
    /\ "swarmclient.NewConfigClient" \in failures
    /\ Managed
    /\ BothKeysPresent
    /\ pc = "exited"

-----------------------------------------------------------------------------
(* Properties of the SSH goroutine and of the status handler *)

\* The listen loop of the SSH server has returned.
ShellTerminated == shell \in {"returned", "ended"}

\* What the primary listener is made of and what it has served.
listener == <<pc, exitCode, mux, grpcServer, gomoteServer, lastReq,
              lastHandler, lastResp>>

\* C11: the end of the SSH server's listen loop is logged by its goroutine
\* and stays inside it: the steps by which the goroutine ends leave the main
\* goroutine and the primary listener as they are, and once the listen loop
\* has returned the primary listener, if main has called it, keeps serving
\* unless its own serve call returns.
C11_ShellEndConfined ==
    /\ [](shell = "ended" => Logged("SSH server ended with error"))
    /\ [](ShellTerminated =>
            /\ "sshServ.ListenAndServe" \in failures
            /\ Done("https.ListenAndServe") =>
                  (pc = "serving" \/ "https.ListenAndServe" \in failures)
            /\ exitCode # -1 => "https.ListenAndServe" \in failures)
    /\ [][(shell \in {"listening", "returned"} /\ shell' # shell)
          => UNCHANGED listener]_vars

C11_Witness ==
    /\ shell = "ended"
    /\ pc = "serving"
    /\ lastHandler = "grpcServer.ServeHTTP"
    /\ Logged("SSH server ended with error")

\* C12: the status handler answers the path "/" with 200, text/plain and
\* the body "gomote status page placeholder", every other path with 404,
\* and its answer depends on the path alone.
C12_StatusHandler ==
    /\ lastHandler = "handleStatus" =>
          /\ lastResp.status \in {200, 404}
          /\ lastReq.path = "/" =>
                lastResp = [status |-> 200, contentType |-> "text/plain",
                            body |-> "gomote status page placeholder"]
          /\ lastReq.path # "/" => lastResp.status = 404
    /\ \A r \in Requests :
          /\ handleStatus(r).status = IF r.path = "/" THEN 200 ELSE 404
          /\ (lastHandler = "handleStatus" /\ r.path = lastReq.path)
                => handleStatus(r) = lastResp

C12_Witness ==
    /\ lastHandler = "handleStatus"
    /\ lastReq.path = "/"
    /\ lastReq.method = "POST"
    /\ lastReq.proto = 2
    /\ lastResp.status = 200
    /\ lastResp.body = "gomote status page placeholder"

-----------------------------------------------------------------------------
(* Properties of the log order and of the origin of the keys *)

\* C13, as stated: when main has called https.ListenAndServe, the log holds
\* the configuration failure line or the line announcing the SSH server.
C13_OutcomeLoggedBeforeServe ==
    Done("https.ListenAndServe") =>
        \/ Logged("unable to configure SSH server")
        \/ Logged("running SSH server")

\* C13: when main has called https.ListenAndServe, configureSSHServer has
\* returned; if it returned an error the failure line is in the log, and if
\* it returned a server the SSH goroutine has been started. The line
\* announcing the SSH server is written by that goroutine, before or after
\* main blocks.
C13_AttemptBeforeServe ==
    Done("https.ListenAndServe") =>
        /\ Done("configureSSHServer")
        /\ sshErr # "" => Logged("unable to configure SSH server")
        /\ sshErr = "" => (ShellStarted /\ sshServ.state = "configured")
        /\ Logged("running SSH server") => shell \notin {"none", "spawned"}

C13_Witness ==
    /\ pc = "serving"
    /\ lastReq # NoRequest
    /\ shell = "spawned"
    /\ ~Logged("running SSH server")

\* A key made by remote.SSHKeyPair in this process.
Generated(key) == key.origin = "generated"

\* The keys the process has in use: the CA key and the pair of the SSH
\* server.
CredentialsInUse ==
    {sshCA, gomoteServer.sshCA, sshServ.privateKey, sshServ.publicKey,
     sshServ.caKey}

\* C14, as stated: outside LocalDev no key in use was generated in process.
C14_GeneratedOnlyInDev ==
    ~LocalDev => \A key \in CredentialsInUse : ~Generated(key)

\* C14: the key pair of the SSH server is generated in process only in
\* LocalDev (-mode=dev); the CA signing key is generated in process in
\* every context, and it is the CA key of the gomote service and of the SSH
\* server.
C14_PairGeneratedOnlyInDev ==
    /\ (Generated(sshServ.privateKey) \/ Generated(sshServ.publicKey))
          => LocalDev
    /\ keyGen > sshCA.serial => LocalDev
    /\ Done("mustRetrieveSSHCertificateAuthority") => sshCA = GeneratedKey(1)
    /\ gomoteServer.built => gomoteServer.sshCA = GeneratedKey(1)
    /\ sshServ.state = "configured" => sshServ.caKey = GeneratedKey(1)

C14_Witness ==
    /\ ~LocalDev
    /\ Managed
    /\ shell = "listening"
    /\ sshServ.privateKey = SuppliedKey
    /\ Generated(sshServ.caKey)

-----------------------------------------------------------------------------
(* Properties of the order of the startup steps *)

\* The bootstrap steps in the order the specification lists them.
StatedOrder ==
    << "secret.InitFlagSupport", "remote.NewSessionPool",
       "schedule.NewScheduler", "mustRetrieveSSHCertificateAuthority",
       "resolve", "grpc.NewServer", "mustStorageClient",
       "mustLUCIConfigClient", "http.NewServeMux", "configureSSHServer",
       "https.ListenAndServe" >>

\* The same steps with the scheduler after the CA key.
SourceOrder ==
    << "secret.InitFlagSupport", "remote.NewSessionPool",
       "mustRetrieveSSHCertificateAuthority", "schedule.NewScheduler",
       "resolve", "grpc.NewServer", "mustStorageClient",
       "mustLUCIConfigClient", "http.NewServeMux", "configureSSHServer",
       "https.ListenAndServe" >>

IsBootstrapStep(name) == \E i \in 1..Len(SourceOrder) : SourceOrder[i] = name

\* The bootstrap steps main has completed, in the order it completed them.
BootstrapTrace == SelectSeq(trace, IsBootstrapStep)

\* C15, as stated: an execution that reaches serving has completed the
\* bootstrap steps in the stated order, the session pool and the scheduler
\* before the CA key.
C15_StatedOrder ==
    Done("https.ListenAndServe") => BootstrapTrace = StatedOrder

\* C15: the bootstrap steps are completed one after the other in this
\* order: secret support, session pool, CA signing key, scheduler,
\* environment and auth resolution, gRPC server, storage client,
\* remote-config client, mux, SSH start attempt, serve; the steps of the
\* managed branch lie between the resolution and the gRPC server.
C15_SourceOrder ==
    /\ Len(BootstrapTrace) <= Len(SourceOrder)
    /\ BootstrapTrace = SubSeq(SourceOrder, 1, Len(BootstrapTrace))
    /\ Done("https.ListenAndServe") => BootstrapTrace = SourceOrder
    /\ Done("interceptors") =>
          \E i \in 1..Len(trace) :
             /\ trace[i] = "interceptors"
             /\ \E j \in 1..(i - 1) : trace[j] = "resolve"
             /\ \A j \in 1..i : trace[j] # "grpc.NewServer"

C15_Witness ==
    /\ pc = "serving"
    /\ Managed
    /\ BootstrapTrace = SourceOrder
    /\ Done("interceptors")

-----------------------------------------------------------------------------
(* Properties of the termination of the startup *)

ServesOrExits == pc \in {"serving", "exited"}

\* C16, as stated: every execution eventually serves the primary listener
\* or exits.
C16_StartupTerminates == <>ServesOrExits

\* C16: the construction of the remote-config client cannot hang: when it
\* does not answer, the deadline expires and the process exits, and an
\* execution that reaches this construction eventually serves the primary
\* listener or exits. The construction of the storage client has no
\* deadline: an execution eventually serves, exits, or waits in it for ever.
C16_ConfigClientTerminates ==
    /\ (pc = "config_blocked") ~> (pc = "exited")
    /\ (pc = "config_client") ~> ServesOrExits
    /\ <>(ServesOrExits \/ pc = "storage_blocked")

C16_Witness ==
    /\ pc = "config_blocked"
    /\ Done("mustStorageClient")
    /\ storageClient = "storage.WithoutAuthentication"
    /\ configClient = "nil"

-----------------------------------------------------------------------------
(* Properties of the objects the two tasks share *)

\* The gomote service and the SSH server both exist.
BothServersBuilt == gomoteServer.built /\ sshServ.state = "configured"

\* The session pools and the keys reachable from both servers.
SharedPools == {gomoteServer.sessionPool} \cap {sshServ.sessionPool}

SharedKeys ==
    {gomoteServer.sshCA}
        \cap {sshServ.privateKey, sshServ.publicKey, sshServ.caKey}

\* What main has built for the two servers.
wiring == <<sp, sshCA, opts, grpcServer, gomoteServer, sshServ>>

\* C17, as stated: the one thing reachable from both the gomote service and
\* the SSH server is a value of ShellCredentials or of AuthPolicy, so they
\* share no session pool.
C17_OnlyConstantsShared ==
    BothServersBuilt => SharedPools = {}

\* C17: the gomote service and the SSH server share two objects, the CA
\* signing key and the session pool of line 50; the gRPC options are held
\* by the gRPC server alone, and once main has called https.ListenAndServe
\* it changes none of what it has built for the two servers.
C17_PoolAndCAShared ==
    /\ [](BothServersBuilt =>
            /\ SharedPools = {sp}
            /\ sp = "SessionPool"
            /\ SharedKeys = {sshCA}
            /\ sshCA = GeneratedKey(1))
    /\ [][Done("https.ListenAndServe") => UNCHANGED wiring]_vars

C17_Witness ==
    /\ BothServersBuilt
    /\ pc = "serving"
    /\ shell = "listening"
    /\ lastHandler = "grpcServer.ServeHTTP"
    /\ gomoteServer.sessionPool = sshServ.sessionPool

-----------------------------------------------------------------------------
(* Properties of the two uses of the flags *)

\* C18: the SSH server runs with a pair generated in process only when
\* -mode is dev; where no interceptor is attached because the process is
\* off the substrate or -env is given, and -mode is empty or prod, a missing
\* key yields the configuration error and no SSH server.
C18_DevDecisionFromModeAlone ==
    /\ (sshServ.state = "configured" /\ Generated(sshServ.privateKey))
          => mode = "dev"
    /\ (Done("configureSSHServer") /\ KeyMissing /\ mode # "dev"
        /\ (~onGCE \/ buildEnvName # ""))
          => /\ FailsWith({"SSH key pair is not configured"})
             /\ opts = <<>>
             /\ keyGen = sshCA.serial

C18_Witness ==
    /\ mode = ""
    /\ ~onGCE
    /\ buildEnvName = ""
    /\ KeyMissing
    /\ pc = "serving"
    /\ grpcServer.opts = <<>>
    /\ sshErr = "SSH key pair is not configured"

====
